---- MODULE Spec2Model ----
(***************************************************************************)
(* A model of helm-list-charts (src/src/main.rs): the pure formatters      *)
(* ellipsize, format_created and format_chart_versions, and the run        *)
(* pipeline with its pager protocol.                                       *)
(*                                                                         *)
(* Text is a sequence of one-character strings, one element per Unicode    *)
(* scalar value; the characters used are ASCII, so Rust's byte offsets and *)
(* char counts coincide and byte-wise comparison is comparison of codes.   *)
(***************************************************************************)
EXTENDS Integers, Sequences, FiniteSets, TLC

VARIABLES
    \* ellipsize, applied once and then to its own result
    text, max_chars, excerpt, excerpt2,
    \* format_created: the field, the local zone (minutes east of UTC) and the
    \* text displayed
    created, local_offset, created_display,
    \* format_chart_versions: its arguments, its sorted copy, the lines it
    \* returns, and whether sort_by panicked
    chart_name, versions, sorted_versions, lines, panicked,
    \* run: what the repository answers, the arguments, the environment (for
    \* each toggle whether std::env::var finds it, and PAGER's value), where run
    \* is, the chart names it iterates over, the lines written to the output
    \* buffer, what it returned, what went to stdout, and the pager subprocess
    remote, args, env, pc, entries, output, result, stdout, pager

ellVars == <<text, max_chars, excerpt, excerpt2>>
createdVars == <<created, created_display>>
fmtVars == <<chart_name, versions, sorted_versions, lines, panicked>>
runVars == <<remote, args, env, pc, entries, output, result, stdout, pager>>
vars == <<ellVars, createdVars, fmtVars, runVars, local_offset>>

\* The variables outside each formatter's own, and outside run's.
outsideEllipsize == <<createdVars, fmtVars, runVars, local_offset>>
outsideCreated == <<ellVars, fmtVars, runVars>>
outsideFormat == <<ellVars, createdVars, runVars>>
outsideRun == <<ellVars, createdVars, fmtVars>>

\* A value no text equals (a text holds one character per element): an absent
\* Option, or a result not computed yet.
None == <<"None">>

--------------------------------------------------------------------------
(* Characters *)

\* The printable ASCII characters in code order, from 32 (space) to 126 (the
\* grave accent, 96, is spelled out: no text of the model holds it).
Printable ==
    << " ", "!", "\"", "#", "$", "%", "&", "'", "(", ")", "*", "+", ",", "-", ".", "/",
       "0", "1", "2", "3", "4", "5", "6", "7", "8", "9", ":", ";", "<", "=", ">", "?",
       "@", "A", "B", "C", "D", "E", "F", "G", "H", "I", "J", "K", "L", "M", "N", "O",
       "P", "Q", "R", "S", "T", "U", "V", "W", "X", "Y", "Z", "[", "\\", "]", "^", "_",
       "grave", "a", "b", "c", "d", "e", "f", "g", "h", "i", "j", "k", "l", "m", "n", "o",
       "p", "q", "r", "s", "t", "u", "v", "w", "x", "y", "z", "{", "|", "}", "~" >>

Chars == {Printable[i] : i \in 1..Len(Printable)} \cup {"\t", "\n"}

\* The byte of an ASCII character.
CodeOf ==
    [c \in Chars |->
        IF c = "\t" THEN 9
        ELSE IF c = "\n" THEN 10
        ELSE 31 + (CHOOSE i \in 1..Len(Printable) : Printable[i] = c)]

Code(c) == CodeOf[c]

\* char::is_whitespace, on the characters above.
IsWhitespace(c) == c \in {" ", "\t", "\n"}

\* The strings over an alphabet, up to a length.
StringsUpTo(alphabet, n) == UNION {[1..k -> alphabet] : k \in 0..n}

Take(s, n) == SubSeq(s, 1, IF n < Len(s) THEN n ELSE Len(s))

--------------------------------------------------------------------------
(* Orderings: Less, Equal, Greater as -1, 0, 1 *)

CmpInt(a, b) == IF a < b THEN -1 ELSE IF a > b THEN 1 ELSE 0

\* Ordering::reverse
Reverse(o) == 0 - o

\* str::cmp: byte-wise lexicographic comparison.
RECURSIVE StrCmp(_, _)
StrCmp(a, b) ==
    IF a = <<>> THEN (IF b = <<>> THEN 0 ELSE -1)
    ELSE IF b = <<>> THEN 1
    ELSE IF Code(Head(a)) # Code(Head(b)) THEN CmpInt(Code(Head(a)), Code(Head(b)))
    ELSE StrCmp(Tail(a), Tail(b))

--------------------------------------------------------------------------
(* semver::Version, as format_chart_versions uses it *)

IsDigit(c) == Code(c) >= 48 /\ Code(c) <= 57

IsAlpha(c) == (Code(c) >= 65 /\ Code(c) <= 90) \/ (Code(c) >= 97 /\ Code(c) <= 122)

\* The characters of a pre-release or build identifier.
IsIdentChar(c) == IsDigit(c) \/ IsAlpha(c) \/ c = "-"

AllDigits(s) == \A i \in 1..Len(s) : IsDigit(s[i])

\* The first position of character c in s, or 0.
IndexOf(s, c) ==
    IF \E i \in 1..Len(s) : s[i] = c
    THEN CHOOSE i \in 1..Len(s) : s[i] = c /\ \A j \in 1..(i-1) : s[j] # c
    ELSE 0

\* str::split: the pieces of s between the separators (one piece more than
\* there are separators, so the empty text gives one empty piece).
RECURSIVE Split(_, _)
Split(s, sep) ==
    LET i == IndexOf(s, sep)
    IN IF i = 0 THEN <<s>>
       ELSE <<SubSeq(s, 1, i - 1)>> \o Split(SubSeq(s, i + 1, Len(s)), sep)

RECURSIVE DigitsToNat(_)
DigitsToNat(s) ==
    IF s = <<>> THEN 0
    ELSE 10 * DigitsToNat(SubSeq(s, 1, Len(s) - 1)) + (Code(s[Len(s)]) - 48)

\* A numeric identifier: digits, with no leading zero unless it is "0".
IsNumericIdent(s) == s # <<>> /\ AllDigits(s) /\ (Len(s) > 1 => s[1] # "0")

\* A pre-release identifier: not empty, of identifier characters, and with no
\* leading zero when it is all digits.
IsPreIdent(s) ==
    /\ s # <<>>
    /\ \A i \in 1..Len(s) : IsIdentChar(s[i])
    /\ (AllDigits(s) => IsNumericIdent(s))

\* A build identifier: not empty, of identifier characters.
IsBuildIdent(s) == s # <<>> /\ \A i \in 1..Len(s) : IsIdentChar(s[i])

\* Err of Version::parse.
ParseErr == [ok |-> FALSE]

\* Version::parse: MAJOR.MINOR.PATCH[-PRE][+BUILD], nothing before or after.
\* pre and build are the identifier lists (empty when the part is absent).
VersionParse(s) ==
    LET plus == IndexOf(s, "+")
        front == IF plus = 0 THEN s ELSE SubSeq(s, 1, plus - 1)
        build == IF plus = 0 THEN <<>> ELSE Split(SubSeq(s, plus + 1, Len(s)), ".")
        dash == IndexOf(front, "-")
        core == IF dash = 0 THEN front ELSE SubSeq(front, 1, dash - 1)
        pre == IF dash = 0 THEN <<>> ELSE Split(SubSeq(front, dash + 1, Len(front)), ".")
        nums == Split(core, ".")
    IN IF /\ Len(nums) = 3
          /\ \A i \in 1..3 : IsNumericIdent(nums[i])
          /\ \A i \in 1..Len(pre) : IsPreIdent(pre[i])
          /\ \A i \in 1..Len(build) : IsBuildIdent(build[i])
       THEN [ok |-> TRUE,
             major |-> DigitsToNat(nums[1]),
             minor |-> DigitsToNat(nums[2]),
             patch |-> DigitsToNat(nums[3]),
             pre |-> pre,
             build |-> build]
       ELSE ParseErr

\* Without its leading zeros.
RECURSIVE TrimZeros(_)
TrimZeros(s) == IF s # <<>> /\ Head(s) = "0" THEN TrimZeros(Tail(s)) ELSE s

\* One pre-release identifier against another: numerically when both are
\* digits (by length, then by bytes), a numeric one below an alphanumeric one,
\* by bytes otherwise.
PreIdentCmp(l, r) ==
    IF AllDigits(l) /\ AllDigits(r)
    THEN (IF Len(l) # Len(r) THEN CmpInt(Len(l), Len(r)) ELSE StrCmp(l, r))
    ELSE IF AllDigits(l) THEN -1
    ELSE IF AllDigits(r) THEN 1
    ELSE StrCmp(l, r)

\* One build identifier against another: as above, but digits may have
\* leading zeros, which count last.
BuildIdentCmp(l, r) ==
    IF AllDigits(l) /\ AllDigits(r)
    THEN LET lv == TrimZeros(l)
             rv == TrimZeros(r)
         IN IF Len(lv) # Len(rv) THEN CmpInt(Len(lv), Len(rv))
            ELSE IF StrCmp(lv, rv) # 0 THEN StrCmp(lv, rv)
            ELSE CmpInt(Len(l), Len(r))
    ELSE IF AllDigits(l) THEN -1
    ELSE IF AllDigits(r) THEN 1
    ELSE StrCmp(l, r)

\* Identifier lists, one identifier at a time; the shorter list is less when
\* it is a prefix of the longer.
RECURSIVE PreListCmp(_, _)
PreListCmp(l, r) ==
    IF l = <<>> THEN (IF r = <<>> THEN 0 ELSE -1)
    ELSE IF r = <<>> THEN 1
    ELSE IF PreIdentCmp(Head(l), Head(r)) # 0 THEN PreIdentCmp(Head(l), Head(r))
    ELSE PreListCmp(Tail(l), Tail(r))

RECURSIVE BuildListCmp(_, _)
BuildListCmp(l, r) ==
    IF l = <<>> THEN (IF r = <<>> THEN 0 ELSE -1)
    ELSE IF r = <<>> THEN 1
    ELSE IF BuildIdentCmp(Head(l), Head(r)) # 0 THEN BuildIdentCmp(Head(l), Head(r))
    ELSE BuildListCmp(Tail(l), Tail(r))

\* Prerelease::cmp: a release (no pre-release) is greater than any pre-release.
PrereleaseCmp(l, r) ==
    IF l = <<>> THEN (IF r = <<>> THEN 0 ELSE 1)
    ELSE IF r = <<>> THEN -1
    ELSE PreListCmp(l, r)

\* Version::cmp: major, minor, patch, pre-release, then build metadata.
VersionCmp(a, b) ==
    IF a.major # b.major THEN CmpInt(a.major, b.major)
    ELSE IF a.minor # b.minor THEN CmpInt(a.minor, b.minor)
    ELSE IF a.patch # b.patch THEN CmpInt(a.patch, b.patch)
    ELSE IF PrereleaseCmp(a.pre, b.pre) # 0 THEN PrereleaseCmp(a.pre, b.pre)
    ELSE BuildListCmp(a.build, b.build)

\* The closure's match with the semantic comparison the other way round
\* (ascending).
compare_parsed_ascending(a, b, ver_a, ver_b) ==
    IF ver_a.ok /\ ver_b.ok THEN VersionCmp(ver_a, ver_b) ELSE StrCmp(b, a)

\* The match of the closure format_chart_versions sorts by, on two version
\* strings and what Version::parse gave for each: descending semantic
\* versions when both parsed, descending bytes otherwise.
compare_parsed(a, b, ver_a, ver_b) ==
    IF ver_a.ok /\ ver_b.ok THEN VersionCmp(ver_b, ver_a) ELSE StrCmp(b, a)

\* The closure: both strings parsed, then the match.
compare_versions(a, b) == compare_parsed(a, b, VersionParse(a), VersionParse(b))

--------------------------------------------------------------------------
(* format_created *)

\* "<unspecified>"
Unspecified == <<"<", "u", "n", "s", "p", "e", "c", "i", "f", "i", "e", "d", ">">>

\* The decimal digits of a natural number.
RECURSIVE NatToDigits(_)
NatToDigits(n) ==
    IF n < 10 THEN <<Printable[17 + n]>>
    ELSE NatToDigits(n \div 10) \o <<Printable[17 + (n % 10)]>>

\* Two digits, zero-padded (n < 100).
TwoDigits(n) == IF n < 10 THEN <<"0">> \o NatToDigits(n) ELSE NatToDigits(n)

\* Four digits, zero-padded (n < 10000).
FourDigits(n) ==
    IF n < 10 THEN <<"0", "0", "0">> \o NatToDigits(n)
    ELSE IF n < 100 THEN <<"0", "0">> \o NatToDigits(n)
    ELSE IF n < 1000 THEN <<"0">> \o NatToDigits(n)
    ELSE NatToDigits(n)

IsLeapYear(y) == (y % 4 = 0 /\ y % 100 # 0) \/ y % 400 = 0

DaysInMonth(y, m) ==
    IF m = 2 THEN (IF IsLeapYear(y) THEN 29 ELSE 28)
    ELSE IF m \in {4, 6, 9, 11} THEN 30
    ELSE 31

\* The day number of a date of the proleptic Gregorian calendar (1970-01-01 is 0).
DaysFromCivil(y, m, d) ==
    LET yy == IF m <= 2 THEN y - 1 ELSE y
        era == yy \div 400
        yoe == yy - era * 400
        mp == (m + 9) % 12
        doy == (153 * mp + 2) \div 5 + d - 1
        doe == yoe * 365 + yoe \div 4 - yoe \div 100 + doy
    IN era * 146097 + doe - 719468

\* The date of a day number.
CivilFromDays(z) ==
    LET zz == z + 719468
        era == zz \div 146097
        doe == zz - era * 146097
        yoe == (doe - doe \div 1460 + doe \div 36524 - doe \div 146096) \div 365
        doy == doe - (365 * yoe + yoe \div 4 - yoe \div 100)
        mp == (5 * doy + 2) \div 153
        d == doy - (153 * mp + 2) \div 5 + 1
        m == IF mp < 10 THEN mp + 3 ELSE mp - 9
        y == yoe + era * 400
    IN [year |-> IF m <= 2 THEN y + 1 ELSE y, month |-> m, day |-> d]

\* Err of DateTime::parse_from_rfc3339.
NotRfc3339 == [ok |-> FALSE]

\* The zone at the end of a timestamp, "Z" or +hh:mm or -hh:mm, as minutes
\* east of UTC; -10000 when it is none of these.
ZoneMinutes(z) ==
    IF z \in {<<"Z">>, <<"z">>} THEN 0
    ELSE IF /\ Len(z) = 6
            /\ z[1] \in {"+", "-"}
            /\ IsDigit(z[2]) /\ IsDigit(z[3]) /\ z[4] = ":" /\ IsDigit(z[5]) /\ IsDigit(z[6])
            /\ DigitsToNat(SubSeq(z, 2, 3)) <= 23
            /\ DigitsToNat(SubSeq(z, 5, 6)) <= 59
         THEN (IF z[1] = "-" THEN -1 ELSE 1)
              * (60 * DigitsToNat(SubSeq(z, 2, 3)) + DigitsToNat(SubSeq(z, 5, 6)))
         ELSE -10000

\* The tail of a timestamp after its seconds: an optional fraction ("." and
\* at least one digit), then the zone.
RECURSIVE SkipDigits(_)
SkipDigits(s) == IF s # <<>> /\ IsDigit(Head(s)) THEN SkipDigits(Tail(s)) ELSE s

ZoneOfTail(t) ==
    IF t # <<>> /\ Head(t) = "."
    THEN (IF Len(t) >= 2 /\ IsDigit(t[2]) THEN ZoneMinutes(SkipDigits(Tail(t))) ELSE -10000)
    ELSE ZoneMinutes(t)

\* DateTime::parse_from_rfc3339: YYYY-MM-DDThh:mm:ss[.fraction](Z|+hh:mm|-hh:mm)
\* with a date of the calendar and a time of the clock (second 60 is a leap
\* second). The result is the instant, in minutes since 1970-01-01T00:00Z.
parse_from_rfc3339(s) ==
    IF /\ Len(s) >= 20
       /\ \A i \in {1, 2, 3, 4, 6, 7, 9, 10, 12, 13, 15, 16, 18, 19} : IsDigit(s[i])
       /\ s[5] = "-" /\ s[8] = "-" /\ s[11] \in {"T", "t", " "}
       /\ s[14] = ":" /\ s[17] = ":"
    THEN LET y == DigitsToNat(SubSeq(s, 1, 4))
             mo == DigitsToNat(SubSeq(s, 6, 7))
             d == DigitsToNat(SubSeq(s, 9, 10))
             h == DigitsToNat(SubSeq(s, 12, 13))
             mi == DigitsToNat(SubSeq(s, 15, 16))
             sec == DigitsToNat(SubSeq(s, 18, 19))
             zone == ZoneOfTail(SubSeq(s, 20, Len(s)))
         IN IF /\ mo \in 1..12
               /\ d >= 1 /\ d <= DaysInMonth(y, mo)
               /\ h <= 23 /\ mi <= 59 /\ sec <= 60
               /\ zone # -10000
            THEN [ok |-> TRUE,
                  minutes |-> DaysFromCivil(y, mo, d) * 1440 + h * 60 + mi - zone]
            ELSE NotRfc3339
    ELSE NotRfc3339

\* %b
MonthAbbrev ==
    << <<"J", "a", "n">>,
       <<"F", "e", "b">>,
       <<"M", "a", "r">>,
       <<"A", "p", "r">>,
       <<"M", "a", "y">>,
       <<"J", "u", "n">>,
       <<"J", "u", "l">>,
       <<"A", "u", "g">>,
       <<"S", "e", "p">>,
       <<"O", "c", "t">>,
       <<"N", "o", "v">>,
       <<"D", "e", "c">> >>

\* dt.with_timezone(&Local).format("%b %-d, %Y %-I:%M %P"), the local zone
\* being `offset` minutes east of UTC: "Feb 13, 2025 12:42 pm".
FormatLocal(minutes, offset) ==
    LET local == minutes + offset
        days == local \div 1440
        rest == local - days * 1440
        date == CivilFromDays(days)
        hour == rest \div 60
        hour12 == IF hour % 12 = 0 THEN 12 ELSE hour % 12
    IN MonthAbbrev[date.month] \o <<" ">> \o NatToDigits(date.day) \o <<",", " ">>
       \o FourDigits(date.year) \o <<" ">> \o NatToDigits(hour12) \o <<":">>
       \o TwoDigits(rest % 60) \o <<" ">>
       \o (IF hour < 12 THEN <<"a", "m">> ELSE <<"p", "m">>)

\* format_created as its doc comment describes it: the placeholder when the
\* field is absent or does not parse.
format_created_placeholder_on_failure(field, offset) ==
    IF field # None
    THEN LET dt == parse_from_rfc3339(field)
         IN IF dt.ok THEN FormatLocal(dt.minutes, offset) ELSE Unspecified
    ELSE Unspecified

\* format_created, `field` being None or a text and `offset` the local
\* zone's offset.
format_created(field, offset) ==
    IF field # None
    THEN LET dt == parse_from_rfc3339(field)
         IN IF dt.ok THEN FormatLocal(dt.minutes, offset) ELSE field
    ELSE Unspecified

--------------------------------------------------------------------------
(* ellipsize *)

Ellipsis == <<".", ".", ".">>

\* str::rfind of a space: the offset (from 0) of the last space, or -1.
RFindSpace(s) ==
    IF \E i \in 1..Len(s) : s[i] = " "
    THEN (CHOOSE i \in 1..Len(s) : s[i] = " " /\ \A j \in (i+1)..Len(s) : s[j] # " ") - 1
    ELSE -1

\* str::trim_end: without its trailing whitespace.
RECURSIVE TrimEnd(_)
TrimEnd(s) ==
    IF s # <<>> /\ IsWhitespace(s[Len(s)]) THEN TrimEnd(SubSeq(s, 1, Len(s) - 1)) ELSE s

\* ellipsize cutting at the raw character boundary always (the word-boundary
\* fallback left out).
ellipsize_raw_cut(t, max) ==
    IF Len(t) <= max THEN t ELSE Take(t, max) \o Ellipsis

\* ellipsize with the budget test off by one (< for <=).
ellipsize_strict_budget(t, max) ==
    IF Len(t) < max THEN t
    ELSE LET taken == Take(t, max)
             pos == RFindSpace(taken)
             trimmed == IF pos >= 0 THEN TrimEnd(SubSeq(taken, 1, pos)) ELSE taken
         IN trimmed \o Ellipsis

ellipsize(t, max) ==
    IF Len(t) <= max THEN t
    ELSE LET taken == Take(t, max)
             pos == RFindSpace(taken)
             trimmed == IF pos >= 0 THEN TrimEnd(SubSeq(taken, 1, pos)) ELSE taken
         IN trimmed \o Ellipsis

\* The first max_chars characters of the text hold a space: the cut falls back
\* to a word boundary.
CutAtWord == Len(text) > max_chars /\ RFindSpace(Take(text, max_chars)) >= 0

\* C3 as stated: excerpting is idempotent, ellipsize(ellipsize(s, n), n) =
\* ellipsize(s, n) for every text s and every budget n.
C3_Idempotent == excerpt2 # None => excerpt2 = excerpt

\* C3 amended: ellipsize(ellipsize(s, n), n) = ellipsize(s, n) exactly when s
\* has at most n characters, or the first n characters of s hold no space, or
\* ellipsize(s, n) has itself at most n characters; when the cut fell back to
\* a word boundary and the result is longer than n, the second application
\* gives a different text.
C3_IdempotentUnlessWordCutOverBudget ==
    excerpt2 # None =>
        (excerpt2 = excerpt <=> (~CutAtWord \/ Len(excerpt) <= max_chars))

\* A text over budget, cut at a word boundary, whose excerpt fits the budget
\* and is returned unchanged by the second application.
C3_Witness ==
    /\ excerpt2 # None
    /\ CutAtWord
    /\ Len(excerpt) <= max_chars
    /\ excerpt2 = excerpt

\* C4: ellipsize(s, n) has at most n + 3 characters; a text of at most n
\* characters is returned as it is; a longer one gives a prefix of s of at most
\* n characters followed by "...".
C4_Bounded ==
    excerpt # None =>
        /\ Len(excerpt) <= max_chars + 3
        /\ (Len(text) <= max_chars => excerpt = text)
        /\ (Len(text) > max_chars =>
                \E k \in 0..max_chars : excerpt = Take(text, k) \o Ellipsis)

\* A text over budget, cut at a word boundary and given its ellipsis.
C4_Witness ==
    /\ excerpt # None
    /\ CutAtWord
    /\ Len(excerpt) < max_chars + 3

--------------------------------------------------------------------------
(* format_chart_versions *)

\* The character budget of a description (ellipsize(.., 50)).
DescriptionBudget == 50

Tab == <<"\t">>

\* Option::unwrap_or
UnwrapOr(opt, default) == IF opt = None THEN default ELSE opt

\* One row: the seven fields of a ChartVersion, tab-separated.
format_row(name, v, offset) ==
    name \o Tab
    \o UnwrapOr(v.chart_type, Unspecified) \o Tab
    \o v.version \o Tab
    \o ellipsize(UnwrapOr(v.description, <<>>), DescriptionBudget) \o Tab
    \o UnwrapOr(v.app_version, Unspecified) \o Tab
    \o format_created(v.created, offset) \o Tab
    \o UnwrapOr(v.kube_version, Unspecified)

\* The versions of a list, each parsed (once).
RECURSIVE ParseAll(_)
ParseAll(strs) ==
    IF strs = <<>> THEN <<>>
    ELSE Append(ParseAll(SubSeq(strs, 1, Len(strs) - 1)), VersionParse(strs[Len(strs)]))

\* The closure's result for every two elements of a list of version strings:
\* the triples <<i, j, closure(strs[i], strs[j])>>.
Comparisons(strs) ==
    LET parsed == ParseAll(strs)
    IN {<<i, j, compare_parsed(strs[i], strs[j], parsed[i], parsed[j])>> :
            i \in 1..Len(strs), j \in 1..Len(strs)}

\* For each element i, the elements ordered before or equal to it.
RECURSIVE BeforeOrEqual(_, _, _)
BeforeOrEqual(cmps, n, i) ==
    IF i = 0 THEN <<>>
    ELSE Append(BeforeOrEqual(cmps, n, i - 1),
                {j : j \in {k \in 1..n : <<k, i, 1>> \notin cmps}})

\* Whether the closure orders the elements of a list consistently: each
\* comparison is the reverse of the opposite one, and before-or-equal is
\* transitive (whatever is before-or-equal i is before-or-equal every j that
\* i is before-or-equal to). sort_by requires it.
Consistent(cmps, n) ==
    LET below == BeforeOrEqual(cmps, n, n)
    IN /\ \A i, j \in 1..n : \A o \in {-1, 0, 1} :
            <<i, j, o>> \in cmps => <<j, i, Reverse(o)>> \in cmps
       /\ \A i, j \in 1..n : i \in below[j] => below[i] \subseteq below[j]

TotalOn(strs) == Consistent(Comparisons(strs), Len(strs))

VersionStringsOf(list) == [i \in 1..Len(list) |-> list[i].version]

\* Insertion of element x into a sorted list of elements (positions of the
\* list being sorted), after every element it does not precede, so that equal
\* elements keep their order.
RECURSIVE InsertSorted(_, _, _)
InsertSorted(cmps, sorted, x) ==
    IF sorted = <<>> THEN <<x>>
    ELSE LET last == sorted[Len(sorted)]
         IN IF <<x, last, -1>> \in cmps
            THEN Append(InsertSorted(cmps, SubSeq(sorted, 1, Len(sorted) - 1), x), last)
            ELSE Append(sorted, x)

\* The stable sort of the first n elements, as positions.
RECURSIVE StableOrder(_, _)
StableOrder(cmps, n) ==
    IF n = 0 THEN <<>> ELSE InsertSorted(cmps, StableOrder(cmps, n - 1), n)

\* The stable sort of a list, given the closure's comparisons of its elements.
StableSort(cmps, list) ==
    LET order == StableOrder(cmps, Len(list))
    IN [i \in 1..Len(list) |-> list[order[i]]]

Arrangements(n) == {p \in [1..n -> 1..n] : \A i, j \in 1..n : p[i] = p[j] => i = j}

\* slice::sort_by with the closure: the stable sort when the closure is a
\* total order on the list; when it is not, the order is unspecified (any
\* arrangement of the elements) and the call may panic.
sort_by(list) ==
    LET cmps == Comparisons(VersionStringsOf(list))
    IN
    IF Consistent(cmps, Len(list))
    THEN {[panicked |-> FALSE, sorted |-> StableSort(cmps, list)]}
    ELSE {[panicked |-> TRUE, sorted |-> <<>>]}
         \cup {[panicked |-> FALSE, sorted |-> [i \in 1..Len(list) |-> list[p[i]]]] :
                 p \in Arrangements(Len(list))}

\* format_chart_versions: the outcomes of sorting a copy of the versions and
\* formatting one line per element of it.
format_chart_versions(name, list, offset) ==
    {[panicked |-> o.panicked,
      sorted |-> o.sorted,
      lines |-> [i \in 1..Len(o.sorted) |-> format_row(name, o.sorted[i], offset)]] :
        o \in sort_by(list)}

--------------------------------------------------------------------------
(* run *)

\* The header line of the table.
Header == <<"C", "H", "A", "R", "T", "\t", "T", "Y", "P", "E", "\t", "V", "E", "R", "S", "I", "O", "N", "\t", "D", "E", "S", "C", "R", "I", "P", "T", "I", "O", "N", "\t", "A", "P", "P", " ", "V", "E", "R", "S", "I", "O", "N", "\t", "C", "R", "E", "A", "T", "E", "D", "\t", "K", "U", "B", "E", " ", "V", "E", "R", "S", "I", "O", "N">>

\* The pager when PAGER is not set.
DefaultPager == <<"l", "e", "s", "s">>

\* The line count from which the pager is used.
PagerThreshold == 25

\* u8::to_ascii_lowercase
ToAsciiLowercase(c) ==
    IF Code(c) >= 65 /\ Code(c) <= 90 THEN Printable[Code(c) - 31 + 32] ELSE c

\* str::eq_ignore_ascii_case
eq_ignore_ascii_case(a, b) ==
    /\ Len(a) = Len(b)
    /\ \A i \in 1..Len(a) : ToAsciiLowercase(a[i]) = ToAsciiLowercase(b[i])

\* HashMap::iter: the keys in an arbitrary order.
IterationOrders(keys) ==
    {order \in [1..Cardinality(keys) -> keys] :
        \A i, j \in 1..Cardinality(keys) : order[i] = order[j] => i = j}

\* The versions of a chart that pass the type filter: all of them without a
\* filter; with one, those whose type is present and equal to it, ignoring
\* ASCII case.
filtered_versions(list, filter_type) ==
    IF filter_type = None THEN list
    ELSE SelectSeq(list, LAMBDA v : v.chart_type # None
                                 /\ eq_ignore_ascii_case(v.chart_type, filter_type))

\* The loop over the entries: the lines of each chart whose filtered versions
\* are not empty, chart after chart; `formatted` holds, for each such chart n,
\* the pairs <<n, outcome of format_chart_versions>>. A panic in a sort ends
\* the loop.
RECURSIVE render_rows(_, _)
render_rows(names, formatted) ==
    IF names = <<>> THEN {[panicked |-> FALSE, rows |-> <<>>]}
    ELSE {IF h[2].panicked THEN [panicked |-> TRUE, rows |-> <<>>]
          ELSE [panicked |-> t.panicked,
                rows |-> IF t.panicked THEN <<>> ELSE h[2].lines \o t.rows] :
            h \in {f \in formatted : f[1] = Head(names)},
            t \in render_rows(Tail(names), formatted)}

CountNewlines(t) == Cardinality({i \in 1..Len(t) : t[i] = "\n"})

\* output_str.lines().count(): each line written ends with a line break, and a
\* line break inside a field starts a line too. (The TabWriter pads the cells
\* of a line; it adds and removes no line, so the lines are kept as written.)
RECURSIVE LineCount(_)
LineCount(out) ==
    IF out = <<>> THEN 0 ELSE 1 + CountNewlines(Head(out)) + LineCount(Tail(out))

\* The test for a table with no data row, with 0 for 1.
only_titles_zero(out) == LineCount(out) = 0

\* Only the titles were written.
only_titles(out) == LineCount(out) = 1

\* The pager decision with > for >=.
use_pager_strict(a, e, out) ==
    /\ ~a.no_pager /\ ~(e.HELM_LIST_CHARTS_NO_PAGER \/ e.NO_PAGER)
    /\ LineCount(out) > PagerThreshold

\* pager_enabled && output_str.lines().count() >= 25
use_pager(a, e, out) ==
    /\ ~a.no_pager /\ ~(e.HELM_LIST_CHARTS_NO_PAGER \/ e.NO_PAGER)
    /\ LineCount(out) >= PagerThreshold

NoPager == [state |-> "none", program |-> None, status |-> 0, received |-> <<>>, waited |-> FALSE]

\* run returns.
Return(r) == pc' = "done" /\ result' = r

\* run, from fetch_index to the choice of the sink. A fetch or parse failure is
\* returned. The entries are collected in the map's iteration order and, with
\* a chart name, reduced to the entries of that name; if none is left, a
\* message is printed and run returns Ok. The header and each chart's lines
\* are written to the buffer; with only the header in it run fails, and
\* otherwise the table goes to the pager or to stdout.
Render ==
    /\ pc = "start"
    /\ IF remote.kind = "unreachable"
       THEN Return("Err: Failed to GET from URL") /\ UNCHANGED <<entries, output, stdout>>
       ELSE IF remote.kind = "malformed"
       THEN Return("Err: Failed to parse YAML index file") /\ UNCHANGED <<entries, output, stdout>>
       ELSE LET has_rows(n) ==
                    /\ args.chart # None => eq_ignore_ascii_case(n, args.chart)
                    /\ filtered_versions(remote.entries[n], args.chart_type) # <<>>
                formatted ==
                    UNION {{<<n, o>> :
                              o \in format_chart_versions(
                                  n, filtered_versions(remote.entries[n], args.chart_type),
                                  local_offset)} :
                           n \in {k \in DOMAIN remote.entries : has_rows(k)}}
            IN
            \E order \in IterationOrders(DOMAIN remote.entries) :
            LET retained ==
                    IF args.chart = None THEN order
                    ELSE SelectSeq(order, LAMBDA n : eq_ignore_ascii_case(n, args.chart))
                charts ==
                    SelectSeq(retained,
                           LAMBDA n : filtered_versions(remote.entries[n], args.chart_type) # <<>>)
            IN /\ entries' = retained
               /\ IF args.chart # None /\ retained = <<>>
                  THEN /\ stdout' = Append(stdout, [kind |-> "message", chart |-> args.chart])
                       /\ Return("Ok")
                       /\ UNCHANGED output
                  ELSE \E o \in render_rows(charts, formatted) :
                       IF o.panicked
                       THEN Return("panic") /\ UNCHANGED <<output, stdout>>
                       ELSE /\ output' = <<Header>> \o o.rows
                            /\ UNCHANGED stdout
                            /\ IF only_titles(output')
                               THEN Return("Err: No charts found.")
                               ELSE /\ pc' = IF use_pager(args, env, output')
                                             THEN "spawn" ELSE "write_stdout"
                                    /\ UNCHANGED result
    /\ UNCHANGED <<remote, args, env, pager, local_offset, outsideRun>>

\* Command::new(pager).stdin(Stdio::piped()).spawn(): the pager is PAGER, or
\* "less"; the spawn fails (no such program) or starts the subprocess.
SpawnPager ==
    /\ pc = "spawn"
    /\ LET program == IF env.PAGER = None THEN DefaultPager ELSE env.PAGER
       IN \/ /\ pager' = [pager EXCEPT !.program = program]
             /\ Return("Err: Failed to spawn pager process")
          \/ /\ pager' = [pager EXCEPT !.program = program, !.state = "running"]
             /\ pc' = "write_pager"
             /\ UNCHANGED result
    /\ UNCHANGED <<remote, args, env, entries, output, stdout, local_offset, outsideRun>>

\* child.stdin.as_mut() (Some, as the stdin was piped) and write_all: the
\* whole text reaches a pager that still reads; the write fails when the
\* pager has exited (a broken pipe), and run returns the error at once.
WritePager ==
    /\ pc = "write_pager"
    /\ IF pager.state = "running"
       THEN /\ pager' = [pager EXCEPT !.received = output]
            /\ pc' = "wait"
            /\ UNCHANGED result
       ELSE /\ Return("Err: Failed to write output to pager")
            /\ UNCHANGED pager
    /\ UNCHANGED <<remote, args, env, entries, output, stdout, local_offset, outsideRun>>

\* child.wait(): returns once the pager has exited, whatever its exit status;
\* the status is dropped and run goes on to return Ok. (The call itself does
\* not fail on a child that was spawned and not yet waited for.)
WaitPager ==
    /\ pc = "wait"
    /\ pager.state = "exited"
    /\ pager' = [pager EXCEPT !.waited = TRUE]
    /\ Return("Ok")
    /\ UNCHANGED <<remote, args, env, entries, output, stdout, local_offset, outsideRun>>

\* io::stdout().write_all: the table is written, or the write fails.
WriteStdout ==
    /\ pc = "write_stdout"
    /\ \/ /\ stdout' = Append(stdout, [kind |-> "table", lines |-> output])
          /\ Return("Ok")
       \/ /\ Return("Err: Failed to write output to stdout")
          /\ UNCHANGED stdout
    /\ UNCHANGED <<remote, args, env, entries, output, pager, local_offset, outsideRun>>

\* The pager subprocess exits, with status 0 or with an error status: when its
\* user quits, when it has read its input, or at once (a program that is no
\* pager).
PagerExits ==
    /\ pager.state = "running"
    /\ \E status \in {0, 1} : pager' = [pager EXCEPT !.state = "exited", !.status = status]
    /\ UNCHANGED <<remote, args, env, pc, entries, output, result, stdout, local_offset,
                   outsideRun>>

--------------------------------------------------------------------------
(* The formatters on their own: each specification draws the inputs of one
   formatter and applies it; the other formatters' variables stay idle. *)

EllipsizeIdle == text = <<>> /\ max_chars = 0 /\ excerpt = None /\ excerpt2 = None

CreatedIdle == created = None /\ created_display = None

RunIdle ==
    /\ remote = [kind |-> "unreachable"]
    /\ args = [chart |-> None, chart_type |-> None, no_pager |-> FALSE]
    /\ env = [HELM_LIST_CHARTS_NO_PAGER |-> FALSE, NO_PAGER |-> FALSE, PAGER |-> None]
    /\ pc = "idle"
    /\ entries = <<>>
    /\ output = <<>>
    /\ result = "none"
    /\ stdout = <<>>
    /\ pager = NoPager

FormatIdle ==
    /\ chart_name = <<>>
    /\ versions = <<>>
    /\ sorted_versions = <<>>
    /\ lines = None
    /\ panicked = FALSE

\* Bounds of the texts ellipsize is applied to.
MaxTextLen == 6
MaxBudget == 5
TextChars == {"a", " ", ".", "\t"}

InitEllipsize ==
    /\ text \in StringsUpTo(TextChars, MaxTextLen)
    /\ max_chars \in 0..MaxBudget
    /\ excerpt = None
    /\ excerpt2 = None
    /\ CreatedIdle /\ FormatIdle /\ RunIdle
    /\ local_offset = 0

\* let e = ellipsize(text, max_chars)
Ellipsize ==
    /\ excerpt = None
    /\ excerpt' = ellipsize(text, max_chars)
    /\ UNCHANGED <<text, max_chars, excerpt2, outsideEllipsize>>

\* ellipsize(&e, max_chars)
EllipsizeAgain ==
    /\ excerpt # None
    /\ excerpt2 = None
    /\ excerpt2' = ellipsize(excerpt, max_chars)
    /\ UNCHANGED <<text, max_chars, excerpt, outsideEllipsize>>

NextEllipsize == Ellipsize \/ EllipsizeAgain

SpecEllipsize == InitEllipsize /\ [][NextEllipsize]_vars

\* The offsets of the local zone: west of UTC, UTC, east of UTC.
LocalOffsets == {-300, 0, 330}

\* A timestamp written from its parts, valid or not: YYYY-MM-DDThh:mm:00 and
\* the zone.
Stamp(y, mo, d, h, mi, zone) ==
    FourDigits(y) \o <<"-">> \o TwoDigits(mo) \o <<"-">> \o TwoDigits(d) \o <<"T">>
    \o TwoDigits(h) \o <<":">> \o TwoDigits(mi) \o <<":", "0", "0">> \o zone

StampZones == {<<"Z">>, <<"+", "0", "5", ":", "3", "0">>, <<"-", "0", "5", ":", "0", "0">>, <<>>}

Stamps ==
    {Stamp(y, mo, d, h, mi, z) :
        y \in {2024, 2025}, mo \in {2, 12, 13}, d \in {1, 29, 30, 31},
        h \in {0, 12, 23, 24}, mi \in {5, 59}, z \in StampZones}

\* Texts that are no timestamp: empty, the placeholder itself, a bare date, a
\* formatted date, a timestamp with an empty fraction.
OddCreated ==
    { <<>>, Unspecified, <<"2", "0", "2", "5", "-", "0", "2", "-", "1", "3">>, <<"F", "e", "b", " ", "1", "3", ",", " ", "2", "0", "2", "5", " ", "1", "2", ":", "4", "2", " ", "p", "m">>, <<"2", "0", "2", "5", "-", "0", "2", "-", "1", "3", "T", "1", "2", ":", "4", "2", ":", "2", "3", ".", "Z">> }

\* The `created` fields of the test module's records.
TestCreated == { <<"2", "0", "2", "5", "-", "0", "2", "-", "1", "3", "T", "1", "2", ":", "4", "2", ":", "2", "3", ".", "9", "6", "7", "7", "6", "0", "6", "9", "6", "Z">>, <<"2", "0", "2", "5", "-", "0", "3", "-", "0", "1", "T", "1", "0", ":", "3", "0", ":", "0", "0", ".", "0", "0", "0", "0", "0", "0", "0", "0", "0", "Z">> }

CreatedInputs == {None} \cup OddCreated \cup TestCreated \cup Stamps

InitCreated ==
    /\ created \in CreatedInputs
    /\ local_offset \in LocalOffsets
    /\ created_display = None
    /\ EllipsizeIdle /\ FormatIdle /\ RunIdle

\* let d = format_created(&created)
FormatCreated ==
    /\ created_display = None
    /\ created_display' = format_created(created, local_offset)
    /\ UNCHANGED <<created, local_offset, outsideCreated>>

NextCreated == FormatCreated

SpecCreated == InitCreated /\ [][NextCreated]_vars

IsRfc3339(s) == s # None /\ parse_from_rfc3339(s).ok

--------------------------------------------------------------------------
(* format_chart_versions on its own *)

\* The longest list of versions formatted.
MaxVersions == 3

\* Version strings: semantic versions (releases, a pre-release, one with
\* build metadata) and strings that are none.
ValidVersions == { <<"1", ".", "0", ".", "0">>, <<"2", ".", "0", ".", "0">>, <<"9", ".", "0", ".", "0">>, <<"1", "0", ".", "0", ".", "0">>, <<"1", ".", "0", ".", "0", "-", "r", "c", ".", "1">>, <<"1", ".", "0", ".", "0", "+", "b">> }
InvalidVersions == { <<"9">>, <<"1", ".", "0">> }

\* A record with every optional field present (the first record of
\* test_format_chart_versions_full, with a description over the budget).
FullRecord(v) ==
    [version |-> v,
     description |-> <<"I", "n", "i", "t", "i", "a", "l", " ", "r", "e", "l", "e", "a", "s", "e", " ", "o", "f", " ", "t", "h", "e", " ", "c", "h", "a", "r", "t", ",", " ", "w", "i", "t", "h", " ", "a", " ", "l", "o", "n", "g", " ", "d", "e", "s", "c", "r", "i", "p", "t", "i", "o", "n", " ", "o", "f", " ", "i", "t">>,
     app_version |-> <<"1", ".", "0">>,
     created |-> <<"2", "0", "2", "5", "-", "0", "2", "-", "1", "3", "T", "1", "2", ":", "4", "2", ":", "2", "3", ".", "9", "6", "7", "7", "6", "0", "6", "9", "6", "Z">>,
     kube_version |-> <<">", "=", " ", "1", ".", "1", "9", ".", "0", "-", "0">>,
     chart_type |-> <<"a", "p", "p", "l", "i", "c", "a", "t", "i", "o", "n">>]

\* A record with only its version (and, as the second record of the test, a
\* description and an appVersion).
BareRecord(v) ==
    [version |-> v,
     description |-> <<"S", "e", "c", "o", "n", "d", " ", "r", "e", "l", "e", "a", "s", "e", " ", "w", "i", "t", "h", " ", "m", "o", "r", "e", " ", "f", "e", "a", "t", "u", "r", "e", "s">>,
     app_version |-> <<"2", ".", "0">>,
     created |-> None,
     kube_version |-> None,
     chart_type |-> None]

Records ==
    {FullRecord(v) : v \in ValidVersions \cup InvalidVersions}
    \cup {BareRecord(v) : v \in { <<"2", ".", "0", ".", "0">>, <<"1", ".", "0", ".", "0">> }}

TestChart == <<"t", "e", "s", "t", "-", "c", "h", "a", "r", "t">>

InitFormat ==
    /\ chart_name = TestChart
    /\ versions \in UNION {[1..n -> Records] : n \in 0..MaxVersions}
    /\ local_offset \in {0, 330}
    /\ sorted_versions = <<>>
    /\ lines = None
    /\ panicked = FALSE
    /\ EllipsizeIdle /\ CreatedIdle /\ RunIdle

\* let lines = format_chart_versions(chart_name, &versions)
FormatChartVersions ==
    /\ lines = None
    /\ ~panicked
    /\ \E o \in format_chart_versions(chart_name, versions, local_offset) :
        /\ panicked' = o.panicked
        /\ sorted_versions' = o.sorted
        /\ lines' = IF o.panicked THEN None ELSE o.lines
    /\ UNCHANGED <<chart_name, versions, local_offset, outsideFormat>>

NextFormat == FormatChartVersions

SpecFormat == InitFormat /\ [][NextFormat]_vars

AllValid(list) == \A i \in 1..Len(list) : VersionParse(list[i].version).ok

\* Precedence as semver.org defines it, on two parsed versions: major, minor
\* and patch as numbers; a pre-release below its release; pre-release
\* identifiers left to right, numeric ones as numbers and below alphanumeric
\* ones, the others by ASCII order, a longer list above its prefix; build
\* metadata ignored.
RECURSIVE PrecedenceOfPre(_, _)
PrecedenceOfPre(l, r) ==
    IF l = <<>> THEN (IF r = <<>> THEN 0 ELSE -1)
    ELSE IF r = <<>> THEN 1
    ELSE LET x == Head(l)
             y == Head(r)
             c == IF AllDigits(x) /\ AllDigits(y) THEN CmpInt(DigitsToNat(x), DigitsToNat(y))
                  ELSE IF AllDigits(x) THEN -1
                  ELSE IF AllDigits(y) THEN 1
                  ELSE StrCmp(x, y)
         IN IF c # 0 THEN c ELSE PrecedenceOfPre(Tail(l), Tail(r))

Precedence(a, b) ==
    LET x == VersionParse(a)
        y == VersionParse(b)
    IN IF x.major # y.major THEN CmpInt(x.major, y.major)
       ELSE IF x.minor # y.minor THEN CmpInt(x.minor, y.minor)
       ELSE IF x.patch # y.patch THEN CmpInt(x.patch, y.patch)
       ELSE IF x.pre = <<>> /\ y.pre = <<>> THEN 0
       ELSE IF x.pre = <<>> THEN 1
       ELSE IF y.pre = <<>> THEN -1
       ELSE PrecedenceOfPre(x.pre, y.pre)

\* C1: when every version string is a semantic version, format_chart_versions
\* returns one row per input record (the rows are the records' rows in some
\* arrangement, none dropped, none twice), and a record of strictly higher
\* precedence is listed before one of lower precedence.
C1_OneRowPerRecordDescending ==
    (lines # None \/ panicked) /\ AllValid(versions) =>
        /\ ~panicked
        /\ Len(lines) = Len(versions)
        /\ \E p \in Arrangements(Len(versions)) :
            /\ \A i \in 1..Len(versions) :
                lines[i] = format_row(chart_name, versions[p[i]], local_offset)
            /\ \A i, j \in 1..Len(versions) :
                Precedence(versions[p[i]].version, versions[p[j]].version) > 0 => i < j

\* Three semantic versions given lowest first, formatted.
C1_Witness ==
    /\ lines # None
    /\ AllValid(versions)
    /\ Len(versions) = 3
    /\ Precedence(versions[1].version, versions[2].version) < 0
    /\ Precedence(versions[2].version, versions[3].version) < 0

\* C2: the comparison format_chart_versions sorts by is a total order on the
\* version strings of any list, valid semantic versions or not (each
\* comparison the reverse of the opposite one, before-or-equal transitive), so
\* the sort never panics.
C2_TotalOrderNeverPanics ==
    (lines # None \/ panicked) =>
        /\ TotalOn(VersionStringsOf(versions))
        /\ ~panicked

--------------------------------------------------------------------------
(* run *)

\* The number of versions of the chart with many.
BulkVersions == 23

\* A record of the index with a version, a type and a description.
Rec(v, type, desc) ==
    [version |-> v, description |-> desc, app_version |-> None,
     created |-> None, kube_version |-> None, chart_type |-> type]

Application == <<"a", "p", "p", "l", "i", "c", "a", "t", "i", "o", "n">>
Library == <<"l", "i", "b", "r", "a", "r", "y">>

\* One application version, as the index of the parse test gives it.
OneApplication ==
    << [FullRecord(<<"1", ".", "0", ".", "0">>) EXCEPT !.description = <<"T", "e", "s", "t", " ", "v", "e", "r", "s", "i", "o", "n", " ", "1">>] >>

\* A library version and, after it, a newer application version.
LibraryThenApplication ==
    << Rec(<<"1", ".", "0", ".", "0">>, Library, None), Rec(<<"2", ".", "0", ".", "0">>, <<"A", "p", "p", "l", "i", "c", "a", "t", "i", "o", "n">>, None) >>

\* One version with no type.
OneUntyped == << Rec(<<"1", ".", "0", ".", "0">>, None, None) >>

\* Three application versions, one of them no semantic version.
NotAllSemantic ==
    << Rec(<<"9">>, Application, None), Rec(<<"9", ".", "0", ".", "0">>, Application, None),
       Rec(<<"1", "0", ".", "0", ".", "0">>, Application, None) >>

\* One library version whose description has two lines.
TwoLineDescription == << Rec(<<"1", ".", "0", ".", "0">>, Library, <<"A", " ", "l", "i", "b", "r", "a", "r", "y", "\n", "o", "f", " ", "h", "e", "l", "p", "e", "r", "s">>) >>

\* Application versions 1.1.0, 1.2.0, ... of one chart.
Bulk(n) == [i \in 1..n |-> Rec(<<"1", ".">> \o NatToDigits(i) \o <<".", "0">>, Application, None)]

\* The chart names of the documents, in the order the document gives them,
\* and the version lists each may have.
ChartNames == << <<"a", "p", "p">>, <<"A", "P", "P">>, <<"d", "b">> >>

ListsOf(i) ==
    IF i = 1 THEN {OneApplication, LibraryThenApplication, NotAllSemantic, Bulk(BulkVersions)}
    ELSE IF i = 2 THEN {OneUntyped, LibraryThenApplication}
    ELSE {OneApplication, TwoLineDescription}

\* The index documents: any of the charts, each with one of its lists.
Indexes ==
    UNION {
        LET names == {ChartNames[i] : i \in present}
            pos(n) == CHOOSE i \in present : ChartNames[i] = n
        IN {[kind |-> "index",
             order |-> SelectSeq(ChartNames, LAMBDA n : n \in names),
             entries |-> e] :
               e \in {f \in [names -> UNION {ListsOf(i) : i \in 1..3}] :
                        \A n \in names : f[n] \in ListsOf(pos(n))}}
        : present \in SUBSET (1..3)}

Init ==
    /\ remote \in {[kind |-> "unreachable"], [kind |-> "malformed"]} \cup Indexes
    /\ args \in [chart : {None, <<"A", "p", "p">>, <<"w", "e", "b">>},
                 chart_type : {None, <<"L", "I", "B", "R", "A", "R", "Y">>},
                 no_pager : BOOLEAN]
    /\ env \in [HELM_LIST_CHARTS_NO_PAGER : BOOLEAN, NO_PAGER : BOOLEAN,
                PAGER : {None, <<"m", "o", "r", "e">>}]
    /\ local_offset = 0
    /\ pc = "start"
    /\ entries = <<>>
    /\ output = <<>>
    /\ result = "none"
    /\ stdout = <<>>
    /\ pager = NoPager
    /\ EllipsizeIdle /\ CreatedIdle /\ FormatIdle

Next == Render \/ SpawnPager \/ WritePager \/ WaitPager \/ WriteStdout \/ PagerExits

Spec == Init /\ [][Next]_vars

\* The entries whose name is the --chart argument, ignoring ASCII case.
NameMatches == {n \in DOMAIN remote.entries : eq_ignore_ascii_case(n, args.chart)}

\* A chart name was given and no entry has it.
NameMiss == args.chart # None /\ NameMatches = {}

\* The records left after the name filter and the type filter: <<chart, i>>
\* for the i-th version of a chart.
DataRows ==
    UNION {{<<n, i>> : i \in {k \in 1..Len(remote.entries[n]) :
                args.chart_type # None =>
                    /\ remote.entries[n][k].chart_type # None
                    /\ eq_ignore_ascii_case(remote.entries[n][k].chart_type,
                                            args.chart_type)}} :
           n \in {m \in DOMAIN remote.entries : args.chart # None => m \in NameMatches}}

NameMissMessage == [kind |-> "message", chart |-> args.chart]

Table == [kind |-> "table", lines |-> output]

\* C6: once the index is parsed, a chart name that no entry has gives the
\* message on stdout, no table and Ok; any other run with no data row left
\* gives the failure "No charts found." and prints nothing; the failure is
\* given in no other case; and no table of the header alone is ever written to
\* stdout or to the pager.
C6_EmptyResults ==
    /\ pc = "done" /\ remote.kind = "index" =>
        /\ NameMiss => result = "Ok" /\ stdout = <<NameMissMessage>> /\ pager = NoPager
        /\ ~NameMiss /\ DataRows = {} =>
            result = "Err: No charts found." /\ stdout = <<>> /\ pager = NoPager
        /\ result = "Err: No charts found." => ~NameMiss /\ DataRows = {}
    /\ \A i \in 1..Len(stdout) : stdout[i].kind = "table" => Len(stdout[i].lines) > 1
    /\ pager.received # <<Header>>

\* A chart name that an entry has, every version of it removed by the type
\* filter, and the run failed.
C6_Witness ==
    /\ pc = "done" /\ remote.kind = "index"
    /\ args.chart # None /\ NameMatches # {}
    /\ args.chart_type # None
    /\ DataRows = {}
    /\ result = "Err: No charts found."

DisablePaging == args.no_pager \/ env.HELM_LIST_CHARTS_NO_PAGER \/ env.NO_PAGER

C8_PagerFailureSurfaced ==
    pc = "done" /\ pager.program # None =>
        /\ pager.state = "none" \/ (pager.state = "exited" /\ pager.status # 0) =>
            result # "Ok"
        /\ stdout = <<>>

\* C9: once the pager is started, run does not return before it has waited
\* for it, and it has written the whole text to it before it waits.
C9_PagerAlwaysWaited ==
    /\ pc = "done" /\ pager.state # "none" => pager.waited
    /\ pager.waited => pager.received = output

\* The chart a row is of: its first field.
RowChart(row) == SubSeq(row, 1, IndexOf(row, "\t") - 1)

\* The place of a chart in the document.
PlaceInDocument(n) == CHOOSE i \in 1..Len(remote.order) : remote.order[i] = n

\* C10: the rows of the table are in the document's order of charts: a row of
\* a chart that comes earlier in the document is never below a row of a chart
\* that comes later.
C10_DocumentOrder ==
    \A i, j \in 2..Len(output) :
        i < j => PlaceInDocument(RowChart(output[i])) <= PlaceInDocument(RowChart(output[j]))

====
